---- MODULE Spec2Model ----
(***************************************************************************)
(* Model of .gitlab/validate-logs-intgs/validate_log_intgs.py: the script  *)
(* that cross-checks the log pipelines of the logs backend against the     *)
(* manifests and READMEs of the integrations.                              *)
(*                                                                         *)
(* The script is one sequential run; every action below is one statement   *)
(* or one loop iteration of its module-level flow.  File contents are      *)
(* inputs, drawn when the script reads them.  A README is represented by   *)
(* its "source" declarations: the declared word and whether the            *)
(* declaration stands inside a backtick-delimited code section.            *)
(***************************************************************************)
EXTENDS Integers, Sequences, FiniteSets, TLC

\* ---- bounds -------------------------------------------------------------
MaxChecks == 2      \* entries listed in the integrations-core root
MaxPipelines == 2   \* pipeline files in the logs-backend root

\* ---- universes of the inputs --------------------------------------------
NoneVal == "<None>"                      \* Python's None
EntryNames == {".h", "B", "a", "b"}      \* directory entries of INTEGRATIONS_CORE
Names == {"A", "c"}                      \* 'name' values of manifests
IntegrationIds == {"b", "c"}             \* 'integration_id' values of manifests
CategorySets == { {"web"}, {"log collection", "web"} }
SourceWords == {"a", "B"}                \* \w+ words a README can declare
PipelineIds == {"A", "b", "z"}           \* 'id' values of pipeline files

Manifests ==
    [ name : Names, integration_id : IntegrationIds, categories : CategorySets ]
Readmes == SUBSET [word : SourceWords, in_code : BOOLEAN]
Listings ==
    { l \in SUBSET [name : EntryNames, has_manifest : BOOLEAN] :
        /\ Cardinality(l) <= MaxChecks
        /\ \A e1, e2 \in l : e1.name = e2.name => e1 = e2 }

\* ---- strings ------------------------------------------------------------
\* str.lower() on the strings of the universes
Lower(s) ==
    CASE s = "A" -> "a"
      [] s = "B" -> "b"
      [] s = "C" -> "c"
      [] OTHER -> s

\* str.startswith('.')
StartsWithDot(s) == s = ".h"

\* code point order of the entry names, as used by list.sort()
Ord(s) ==
    CASE s = ".h" -> 1
      [] s = "B" -> 2
      [] s = "a" -> 3
      [] s = "b" -> 4

Range(s) == { s[i] : i \in DOMAIN s }

\* list.sort() of a list of distinct names
RECURSIVE SortNames(_)
SortNames(S) ==
    IF S = {} THEN << >>
    ELSE LET m == CHOOSE x \in S : \A y \in S : Ord(x) <= Ord(y)
         IN  <<m>> \o SortNames(S \ {m})

\* list(a_set): the iteration order of a set of str is not fixed
RECURSIVE ListsOfSet(_)
ListsOfSet(S) ==
    IF S = {} THEN { << >> }
    ELSE UNION { { <<x>> \o l : l \in ListsOfSet(S \ {x}) } : x \in S }

\* ---- CheckDefinition ----------------------------------------------------
\* the lists get_log_sources_in_readme can return for a README
get_log_sources_in_readme(readme) ==
    LET code_sections == { m \in readme : m.in_code }
        sources == { m.word : m \in code_sections }
    IN  IF Cardinality(sources) = 0 THEN { << >> } ELSE ListsOfSet(sources)

\* CheckDefinition.__init__, given the list the README extraction returned
CheckDefinition(dir_name, manifest, sources) ==
    [ dir_name |-> dir_name,
      name |-> manifest.name,
      integration_id |-> manifest.integration_id,
      log_collection |-> "log collection" \in manifest.categories,
      log_source_name |-> NoneVal,
      source_names_readme |-> sources ]

set_log_source_name(check, log_source_name) ==
    [check EXCEPT !.log_source_name = log_source_name]

is_self(check, other_check_name) ==
    LET candidates ==
            << Lower(check.dir_name), Lower(check.name), Lower(check.integration_id) >>
            \o [ i \in DOMAIN check.source_names_readme |->
                    Lower(check.source_names_readme[i]) ]
    IN  Lower(other_check_name) \in Range(candidates)

\* Python truth value of an Optional[str]
Falsy(s) == s = NoneVal \/ s = ""

\* the five messages validate() can build
ErrNoPipelineLogCollection(check) ==
    [ kind |-> "no pipeline, log collection in manifest", name |-> check.name,
      pipeline |-> NoneVal, source |-> NoneVal, sources |-> << >> ]
ErrNoPipelineSource(check, source) ==
    [ kind |-> "no pipeline, source in README", name |-> check.name,
      pipeline |-> NoneVal, source |-> source, sources |-> << >> ]
ErrNoLogCollection(check) ==
    [ kind |-> "pipeline, no log collection in manifest", name |-> check.name,
      pipeline |-> check.log_source_name, source |-> NoneVal, sources |-> << >> ]
ErrNotDocumented(check) ==
    [ kind |-> "pipeline, not documented in README", name |-> check.name,
      pipeline |-> check.log_source_name, source |-> NoneVal, sources |-> << >> ]
ErrMultipleSources(check) ==
    [ kind |-> "pipeline, multiple sources in README", name |-> check.name,
      pipeline |-> check.log_source_name, source |-> NoneVal,
      sources |-> check.source_names_readme ]

\* validate() with the README loop of the unmatched branch turned into an else
validate_else_sources(check) ==
    IF Falsy(check.log_source_name)
    THEN IF check.log_collection
         THEN << ErrNoPipelineLogCollection(check) >>
         ELSE [ i \in DOMAIN check.source_names_readme |->
                  ErrNoPipelineSource(check, check.source_names_readme[i]) ]
    ELSE LET e1 == IF ~check.log_collection
                   THEN << ErrNoLogCollection(check) >> ELSE << >>
             e2 == IF Len(check.source_names_readme) = 0
                   THEN e1 \o << ErrNotDocumented(check) >> ELSE e1
         IN  IF Len(check.source_names_readme) > 1
             THEN e2 \o << ErrMultipleSources(check) >> ELSE e2

\* validate() with the tests of the matched branch chained by elif
validate_elif(check) ==
    IF Falsy(check.log_source_name)
    THEN (IF check.log_collection THEN << ErrNoPipelineLogCollection(check) >> ELSE << >>)
         \o [ i \in DOMAIN check.source_names_readme |->
                ErrNoPipelineSource(check, check.source_names_readme[i]) ]
    ELSE IF ~check.log_collection THEN << ErrNoLogCollection(check) >>
    ELSE IF Len(check.source_names_readme) = 0 THEN << ErrNotDocumented(check) >>
    ELSE IF Len(check.source_names_readme) > 1 THEN << ErrMultipleSources(check) >>
    ELSE << >>

\* validate() with the multiple-sources test off by one (>= 1)
validate_ge_one(check) ==
    IF Falsy(check.log_source_name)
    THEN (IF check.log_collection THEN << ErrNoPipelineLogCollection(check) >> ELSE << >>)
         \o [ i \in DOMAIN check.source_names_readme |->
                ErrNoPipelineSource(check, check.source_names_readme[i]) ]
    ELSE LET e1 == IF ~check.log_collection
                   THEN << ErrNoLogCollection(check) >> ELSE << >>
             e2 == IF Len(check.source_names_readme) = 0
                   THEN e1 \o << ErrNotDocumented(check) >> ELSE e1
         IN  IF Len(check.source_names_readme) >= 1
             THEN e2 \o << ErrMultipleSources(check) >> ELSE e2

validate(check) ==
    IF Falsy(check.log_source_name)
    THEN (IF check.log_collection THEN << ErrNoPipelineLogCollection(check) >> ELSE << >>)
         \o [ i \in DOMAIN check.source_names_readme |->
                ErrNoPipelineSource(check, check.source_names_readme[i]) ]
    ELSE LET e1 == IF ~check.log_collection
                   THEN << ErrNoLogCollection(check) >> ELSE << >>
             e2 == IF Len(check.source_names_readme) = 0
                   THEN e1 \o << ErrNotDocumented(check) >> ELSE e1
         IN  IF Len(check.source_names_readme) > 1
             THEN e2 \o << ErrMultipleSources(check) >> ELSE e2

\* ---- module-level functions ---------------------------------------------
\* the check_dirs of get_all_checks: filtered listing, sorted
get_check_dirs(listing) ==
    SortNames({ e.name : e \in { x \in listing : ~StartsWithDot(x.name) /\ x.has_manifest } })

\* index in agt_intgs_checks of the returned check, 0 for None
RECURSIVE get_check_from(_, _, _)
get_check_from(i, log_source_name, agt_intgs_checks) ==
    IF i > Len(agt_intgs_checks) THEN 0
    ELSE IF is_self(agt_intgs_checks[i], log_source_name) THEN i
    ELSE get_check_from(i + 1, log_source_name, agt_intgs_checks)

\* get_check_for_pipeline() keeping the last check that is_self instead of
\* returning the first
get_check_for_pipeline_last(log_source_name, agt_intgs_checks) ==
    LET hits == { i \in DOMAIN agt_intgs_checks :
                    is_self(agt_intgs_checks[i], log_source_name) }
    IN  IF hits = {} THEN 0 ELSE CHOOSE i \in hits : \A j \in hits : j <= i

get_check_for_pipeline(log_source_name, agt_intgs_checks) ==
    get_check_from(1, log_source_name, agt_intgs_checks)

\* ---- state --------------------------------------------------------------
VARIABLES
    argc,          \* len(sys.argv)
    pc,            \* position in the module-level flow
    exc,           \* the uncaught exception that ended the run, or NoneVal
    exit_code,     \* exit status, -1 while running
    stdout,        \* what was printed to sys.stdout, in order
    stderr,        \* what was printed to sys.stderr, in order
    check_dirs,    \* get_all_checks: the sorted directory names
    all_checks,    \* the CheckDefinition objects built so far
    files,         \* get_all_log_pipelines_ids: number of pipeline files
    pipeline_ids,  \* ids the generator has yielded so far
    check,         \* last result of get_check_for_pipeline (index, 0 = None)
    vidx,          \* number of checks the validation loop has handled
    errors,        \* last result of check.validate()
    validation_errors_per_check,  \* the dict, as a list of items in insertion order
    snapshot       \* what the previous run over the same files read and printed

vars == << argc, pc, exc, exit_code, stdout, stderr, check_dirs, all_checks, files,
           pipeline_ids, check, vidx, errors, validation_errors_per_check, snapshot >>

NoSnapshot == [ taken |-> FALSE, checks |-> << >>, pipeline_ids |-> << >>,
                stdout |-> << >> ]

Line(text) == [ kind |-> "line", text |-> text, doc |-> << >> ]
JsonDump(d) == [ kind |-> "json", text |-> "", doc |-> d ]

\* ---- the files as the run finds them --------------------------------------
\* A first run reads any content; a run repeated over the same files reads
\* what the first run read.
EnvListings ==
    IF snapshot.taken
    THEN { { [name |-> snapshot.checks[i].dir_name, has_manifest |-> TRUE] :
                i \in DOMAIN snapshot.checks } }
    ELSE Listings
EnvManifests(i) ==
    IF snapshot.taken
    THEN { m \in Manifests :
            /\ m.name = snapshot.checks[i].name
            /\ m.integration_id = snapshot.checks[i].integration_id
            /\ ("log collection" \in m.categories) = snapshot.checks[i].log_collection }
    ELSE Manifests
EnvReadmes(i) ==
    IF snapshot.taken
    THEN { { [word |-> w, in_code |-> TRUE] :
                w \in Range(snapshot.checks[i].source_names_readme) } }
    ELSE Readmes
EnvFileCounts ==
    IF snapshot.taken THEN { Len(snapshot.pipeline_ids) } ELSE 0 .. MaxPipelines
EnvPipelineIds(j) ==
    IF snapshot.taken THEN { snapshot.pipeline_ids[j] } ELSE PipelineIds
EnvMalformed == ~snapshot.taken

Init ==
    /\ argc \in 1 .. 3
    /\ pc = "start"
    /\ exc = NoneVal
    /\ exit_code = -1
    /\ stdout = << >>
    /\ stderr = << >>
    /\ check_dirs = << >>
    /\ all_checks = << >>
    /\ files = 0
    /\ pipeline_ids = << >>
    /\ check = 0
    /\ vidx = 0
    /\ errors = << >>
    /\ validation_errors_per_check = << >>
    /\ snapshot = NoSnapshot

\* the run dies on an uncaught exception
Raise(e) ==
    /\ pc' = "failed"
    /\ exc' = e
    /\ exit_code' = 1
    /\ stderr' = Append(stderr, "Traceback")

\* lines 130-132
UsageError ==
    /\ pc = "start"
    /\ argc # 2
    /\ stderr' = Append(stderr, "This script requires a single JSON file as an argument.")
    /\ exit_code' = 1
    /\ pc' = "exited"
    /\ UNCHANGED << argc, exc, stdout, check_dirs, all_checks, files, pipeline_ids,
                    check, vidx, errors, validation_errors_per_check, snapshot >>

\* lines 134-135
PrintRoots ==
    /\ pc = "start"
    /\ argc = 2
    /\ stdout' = stdout \o << Line("LOGS_BACKEND_INTGS_ROOT"), Line("INTEGRATIONS_CORE") >>
    /\ pc' = "load_mapping"
    /\ UNCHANGED << argc, exc, exit_code, stderr, check_dirs, all_checks, files,
                    pipeline_ids, check, vidx, errors, validation_errors_per_check,
                    snapshot >>

\* lines 137-138
LoadMapping ==
    /\ pc = "load_mapping"
    /\ pc' = "get_all_checks"
    /\ UNCHANGED << argc, exc, exit_code, stdout, stderr, check_dirs, all_checks, files,
                    pipeline_ids, check, vidx, errors, validation_errors_per_check,
                    snapshot >>

LoadMappingFail ==
    /\ pc = "load_mapping"
    /\ EnvMalformed
    /\ Raise("mapping file")
    /\ UNCHANGED << argc, stdout, check_dirs, all_checks, files, pipeline_ids,
                    check, vidx, errors, validation_errors_per_check, snapshot >>

\* lines 100-105
ListCheckDirs ==
    /\ pc = "get_all_checks"
    /\ \E listing \in EnvListings : check_dirs' = get_check_dirs(listing)
    /\ pc' = "construct_checks"
    /\ UNCHANGED << argc, exc, exit_code, stdout, stderr, all_checks, files,
                    pipeline_ids, check, vidx, errors, validation_errors_per_check,
                    snapshot >>

\* line 101 raising: INTEGRATIONS_CORE cannot be listed
ListCheckDirsFail ==
    /\ pc = "get_all_checks"
    /\ EnvMalformed
    /\ Raise("integrations root")
    /\ UNCHANGED << argc, stdout, check_dirs, all_checks, files, pipeline_ids,
                    check, vidx, errors, validation_errors_per_check, snapshot >>

\* lines 108-109, one iteration
ConstructCheck ==
    /\ pc = "construct_checks"
    /\ Len(all_checks) < Len(check_dirs)
    /\ LET i == Len(all_checks) + 1
       IN  \E manifest \in EnvManifests(i), readme \in EnvReadmes(i) :
             \E sources \in get_log_sources_in_readme(readme) :
                all_checks' = Append(all_checks,
                                     CheckDefinition(check_dirs[i], manifest, sources))
    /\ UNCHANGED << argc, pc, exc, exit_code, stdout, stderr, check_dirs, files,
                    pipeline_ids, check, vidx, errors, validation_errors_per_check,
                    snapshot >>

\* lines 18-25 and 38-40 raising: manifest or README missing or malformed
ConstructCheckFail ==
    /\ pc = "construct_checks"
    /\ Len(all_checks) < Len(check_dirs)
    /\ EnvMalformed
    /\ \E e \in {"manifest", "README"} : Raise(e)
    /\ UNCHANGED << argc, stdout, check_dirs, all_checks, files, pipeline_ids,
                    check, vidx, errors, validation_errors_per_check, snapshot >>

\* lines 115-117, run when the loop of line 141 asks for the first id
ListPipelineFiles ==
    /\ pc = "construct_checks"
    /\ Len(all_checks) = Len(check_dirs)
    /\ files' \in EnvFileCounts
    /\ pc' = "matching"
    /\ UNCHANGED << argc, exc, exit_code, stdout, stderr, check_dirs, all_checks,
                    pipeline_ids, check, vidx, errors, validation_errors_per_check,
                    snapshot >>

\* line 115 raising: LOGS_BACKEND_INTGS_ROOT cannot be listed
ListPipelineFilesFail ==
    /\ pc = "construct_checks"
    /\ Len(all_checks) = Len(check_dirs)
    /\ EnvMalformed
    /\ Raise("pipelines root")
    /\ UNCHANGED << argc, stdout, check_dirs, all_checks, files, pipeline_ids,
                    check, vidx, errors, validation_errors_per_check, snapshot >>

\* lines 119-120 and 141-143, one iteration
MatchPipeline ==
    /\ pc = "matching"
    /\ Len(pipeline_ids) < files
    /\ \E pipeline_id \in EnvPipelineIds(Len(pipeline_ids) + 1) :
         LET c == get_check_for_pipeline(pipeline_id, all_checks)
         IN  /\ pipeline_ids' = Append(pipeline_ids, pipeline_id)
             /\ check' = c
             /\ all_checks' =
                  IF c # 0
                  THEN [all_checks EXCEPT ![c] = set_log_source_name(@, pipeline_id)]
                  ELSE all_checks
    /\ UNCHANGED << argc, pc, exc, exit_code, stdout, stderr, check_dirs, files,
                    vidx, errors, validation_errors_per_check, snapshot >>

\* the malformed pipeline file is reported and skipped, the loop goes on
ReadPipelineFail_skip ==
    /\ pc = "matching"
    /\ Len(pipeline_ids) < files
    /\ EnvMalformed
    /\ exc' = "pipeline file"
    /\ stderr' = Append(stderr, "Traceback")
    /\ files' = files - 1
    /\ UNCHANGED << argc, pc, exit_code, stdout, check_dirs, all_checks, pipeline_ids,
                    check, vidx, errors, validation_errors_per_check, snapshot >>

\* lines 119-120 raising: the next pipeline file cannot be read, is not YAML
\* or has no 'id'
ReadPipelineFail ==
    /\ pc = "matching"
    /\ Len(pipeline_ids) < files
    /\ EnvMalformed
    /\ Raise("pipeline file")
    /\ UNCHANGED << argc, stdout, check_dirs, all_checks, files, pipeline_ids,
                    check, vidx, errors, validation_errors_per_check, snapshot >>

\* line 146, once the generator is exhausted
EndMatching ==
    /\ pc = "matching"
    /\ Len(pipeline_ids) = files
    /\ validation_errors_per_check' = << >>
    /\ pc' = "validating"
    /\ UNCHANGED << argc, exc, exit_code, stdout, stderr, check_dirs, all_checks, files,
                    pipeline_ids, check, vidx, errors, snapshot >>

\* the iteration without the test of line 149: every check gets a key
ValidateCheck_no_filter ==
    /\ pc = "validating"
    /\ vidx < Len(all_checks)
    /\ LET c == all_checks[vidx + 1]
           e == validate(c)
       IN  /\ errors' = e
           /\ validation_errors_per_check' =
                Append(validation_errors_per_check, [key |-> c.dir_name, value |-> e])
    /\ vidx' = vidx + 1
    /\ UNCHANGED << argc, pc, exc, exit_code, stdout, stderr, check_dirs, all_checks,
                    files, pipeline_ids, check, snapshot >>

\* lines 147-150, one iteration
ValidateCheck ==
    /\ pc = "validating"
    /\ vidx < Len(all_checks)
    /\ LET c == all_checks[vidx + 1]
           e == validate(c)
       IN  /\ errors' = e
           /\ validation_errors_per_check' =
                IF e # << >>
                THEN Append(validation_errors_per_check, [key |-> c.dir_name, value |-> e])
                ELSE validation_errors_per_check
    /\ vidx' = vidx + 1
    /\ UNCHANGED << argc, pc, exc, exit_code, stdout, stderr, check_dirs, all_checks,
                    files, pipeline_ids, check, snapshot >>

\* line 154 and the normal end of the script
PrintReport ==
    /\ pc = "validating"
    /\ vidx = Len(all_checks)
    /\ stdout' = Append(stdout, JsonDump(validation_errors_per_check))
    /\ exit_code' = 0
    /\ pc' = "done"
    /\ UNCHANGED << argc, exc, stderr, check_dirs, all_checks, files, pipeline_ids,
                    check, vidx, errors, validation_errors_per_check, snapshot >>

Next ==
    \/ UsageError
    \/ PrintRoots
    \/ LoadMapping
    \/ LoadMappingFail
    \/ ListCheckDirs
    \/ ListCheckDirsFail
    \/ ConstructCheck
    \/ ConstructCheckFail
    \/ ListPipelineFiles
    \/ ListPipelineFilesFail
    \/ MatchPipeline
    \/ ReadPipelineFail
    \/ EndMatching
    \/ ValidateCheck
    \/ PrintReport

Spec == Init /\ [][Next]_vars

\* ---- a second run over the same files -----------------------------------
\* The script is started again, with the same argument, on the files the
\* finished run read.
RunAgain ==
    /\ pc = "done"
    /\ ~snapshot.taken
    /\ snapshot' = [ taken |-> TRUE, checks |-> all_checks,
                     pipeline_ids |-> pipeline_ids, stdout |-> stdout ]
    /\ pc' = "start"
    /\ exc' = NoneVal
    /\ exit_code' = -1
    /\ stdout' = << >>
    /\ stderr' = << >>
    /\ check_dirs' = << >>
    /\ all_checks' = << >>
    /\ files' = 0
    /\ pipeline_ids' = << >>
    /\ check' = 0
    /\ vidx' = 0
    /\ errors' = << >>
    /\ validation_errors_per_check' = << >>
    /\ UNCHANGED argc

NextTwice == Next \/ RunAgain

SpecTwice == Init /\ [][NextTwice]_vars

\* ---- vocabulary of the properties ---------------------------------------
\* the aliases under which a record answers to a pipeline id
AliasSet(c) ==
    { Lower(c.dir_name), Lower(c.name), Lower(c.integration_id) }
    \cup { Lower(w) : w \in Range(c.source_names_readme) }

Matched(c) == c.log_source_name # NoneVal

\* the validation loop has produced `errors` for all_checks[vidx]
Validated == pc \in {"validating", "done"} /\ vidx > 0

\* findings that say the integration has no pipeline
MissingPipelineKinds ==
    { "no pipeline, log collection in manifest", "no pipeline, source in README" }

CountKinds(findings, kinds) ==
    Cardinality({ k \in DOMAIN findings : findings[k].kind \in kinds })

\* the document printed on standard output, once printed
Report == stdout[Len(stdout)].doc
ReportKeys == { Report[k].key : k \in DOMAIN Report }
FindingsOf(dir_name) ==
    IF dir_name \in ReportKeys
    THEN (CHOOSE k \in DOMAIN Report : Report[k].key = dir_name)
    ELSE 0
ReportedFindings(dir_name) ==
    IF FindingsOf(dir_name) = 0 THEN << >> ELSE Report[FindingsOf(dir_name)].value

\* position of a directory name in the catalog
PositionOf(dir_name) ==
    CHOOSE i \in DOMAIN all_checks : all_checks[i].dir_name = dir_name

\* ---- C1 -----------------------------------------------------------------
\* C1: a record's log_source_name starts unset and, once set to a value,
\* never changes to a different value for the rest of the run.
C1_MatchedIdSetOnce ==
    [][ \A i \in DOMAIN all_checks' :
          IF i \in DOMAIN all_checks
          THEN Matched(all_checks[i]) =>
                 all_checks'[i].log_source_name = all_checks[i].log_source_name
          ELSE ~Matched(all_checks'[i]) ]_vars

\* ---- C2 -----------------------------------------------------------------
\* C2: a matched record with the capability flag and exactly one documented
\* source that differs from the matched pipeline id gets a non-empty
\* findings list from validate().
C2_MismatchReported ==
    Validated =>
        LET c == all_checks[vidx]
        IN  ( /\ Matched(c)
              /\ c.log_collection
              /\ Len(c.source_names_readme) = 1
              /\ Lower(c.source_names_readme[1]) # Lower(c.log_source_name) )
            => errors # << >>

\* ---- C3 -----------------------------------------------------------------
\* C3 as stated: an integration with the capability flag that no pipeline id
\* matches has exactly one finding mentioning the missing pipeline in the
\* report, whatever its documented sources.
C3_ExactlyOneMissingPipelineFinding ==
    pc = "done" =>
        \A i \in DOMAIN all_checks :
            ( /\ all_checks[i].log_collection
              /\ \A j \in DOMAIN pipeline_ids :
                    Lower(pipeline_ids[j]) \notin AliasSet(all_checks[i]) )
            => CountKinds(ReportedFindings(all_checks[i].dir_name),
                          MissingPipelineKinds) = 1

\* C3 amended: such an integration has exactly one finding "no pipeline but
\* declares log collection" in the report, and the findings mentioning the
\* missing pipeline are that one plus one per documented source.
C3_OneCapabilityFindingPlusSources ==
    pc = "done" =>
        \A i \in DOMAIN all_checks :
            ( all_checks[i].log_collection /\ ~Matched(all_checks[i]) )
            => LET r == ReportedFindings(all_checks[i].dir_name)
               IN  /\ CountKinds(r, {"no pipeline, log collection in manifest"}) = 1
                   /\ CountKinds(r, MissingPipelineKinds)
                        = 1 + Len(all_checks[i].source_names_readme)
                   /\ Len(r) = 1 + Len(all_checks[i].source_names_readme)

C3_Witness ==
    /\ pc = "done"
    /\ \E i \in DOMAIN all_checks :
         /\ all_checks[i].log_collection
         /\ ~Matched(all_checks[i])
         /\ Len(all_checks[i].source_names_readme) = 2
         /\ Len(ReportedFindings(all_checks[i].dir_name)) = 3

\* ---- C4 -----------------------------------------------------------------
\* the decision table, rule by rule
Rule1(c) == IF ~Matched(c) /\ c.log_collection
            THEN << ErrNoPipelineLogCollection(c) >> ELSE << >>
Rule2(c) == IF ~Matched(c)
            THEN [ k \in 1 .. Len(c.source_names_readme) |->
                     ErrNoPipelineSource(c, c.source_names_readme[k]) ]
            ELSE << >>
Rule3(c) == IF Matched(c) /\ ~c.log_collection
            THEN << ErrNoLogCollection(c) >> ELSE << >>
Rule4(c) == IF Matched(c) /\ c.source_names_readme = << >>
            THEN << ErrNotDocumented(c) >> ELSE << >>
Rule5(c) == IF Matched(c) /\ Len(c.source_names_readme) > 1
            THEN << ErrMultipleSources(c) >> ELSE << >>

\* C4: validate() returns the concatenation, in table order, of the findings
\* of the five rules, each evaluated on its own.
C4_RulesAccumulate ==
    Validated =>
        LET c == all_checks[vidx]
        IN  errors = Rule1(c) \o Rule2(c) \o Rule3(c) \o Rule4(c) \o Rule5(c)

C4_Witness ==
    /\ Validated
    /\ Matched(all_checks[vidx])
    /\ ~all_checks[vidx].log_collection
    /\ all_checks[vidx].source_names_readme = << >>
    /\ Len(errors) = 2

\* ---- C5 -----------------------------------------------------------------
\* C5: each pipeline id is bound to the first record, in catalog order,
\* whose alias set contains it case-insensitively, and to that record only;
\* an id no record aliases gives None and changes no record.
C5_FirstAliasWins ==
    [][ (pc = "matching" /\ Len(pipeline_ids') = Len(pipeline_ids) + 1) =>
          LET id == pipeline_ids'[Len(pipeline_ids')]
              aliasing == { i \in DOMAIN all_checks :
                              Lower(id) \in AliasSet(all_checks[i]) }
          IN  IF aliasing = {}
              THEN check' = 0 /\ all_checks' = all_checks
              ELSE /\ check' \in aliasing
                   /\ \A j \in aliasing : check' <= j
                   /\ all_checks'[check'].log_source_name = id
                   /\ \A i \in DOMAIN all_checks :
                        i # check' => all_checks'[i] = all_checks[i] ]_vars

C5_Witness ==
    /\ pc = "matching"
    /\ Len(pipeline_ids) = 1
    /\ Len(all_checks) = 2
    /\ check = 2
    /\ pipeline_ids[1] = "A"
    /\ all_checks[2].dir_name = "b"
    /\ all_checks[2].name = "c"
    /\ "a" \in Range(all_checks[2].source_names_readme)
    /\ ~Matched(all_checks[1])

\* ---- C6 -----------------------------------------------------------------
\* C6: a second run over the same files prints exactly what the first run
\* printed.
C6_SameOutputTwice ==
    (snapshot.taken /\ pc = "done") => stdout = snapshot.stdout

\* ---- C7 -----------------------------------------------------------------
\* C7: every record is validated; the report has a key for a directory name
\* exactly when validate() returned findings for it, the value is that list,
\* and the keys are in catalog order.
C7_ReportIsNonEmptyFindings ==
    pc = "done" =>
        /\ vidx = Len(all_checks)
        /\ \A i \in DOMAIN all_checks :
             /\ (all_checks[i].dir_name \in ReportKeys) <=> (validate(all_checks[i]) # << >>)
             /\ ReportedFindings(all_checks[i].dir_name) = validate(all_checks[i])
        /\ \A k \in DOMAIN Report :
             \E i \in DOMAIN all_checks : all_checks[i].dir_name = Report[k].key
        /\ \A k1, k2 \in DOMAIN Report :
             k1 < k2 => PositionOf(Report[k1].key) < PositionOf(Report[k2].key)

C7_Witness ==
    /\ pc = "done"
    /\ Len(all_checks) = 2
    /\ Len(Report) = 1
    /\ Report[1].key = all_checks[2].dir_name
    /\ Matched(all_checks[1])

\* ---- C8 -----------------------------------------------------------------
\* C8: a run in which loading raised never has the findings report on its
\* standard output.
C8_NoReportAfterLoadingError ==
    exc # NoneVal => \A k \in DOMAIN stdout : stdout[k].kind # "json"

C8_Witness ==
    /\ pc = "failed"
    /\ exc = "pipeline file"
    /\ Len(pipeline_ids) = 1
    /\ files = 2
    /\ \E i \in DOMAIN all_checks : Matched(all_checks[i])

\* ---- C9 -----------------------------------------------------------------
\* C9: a successful run writes the findings map to standard output and
\* nothing else.
C9_OnlyTheReportOnStdout ==
    (pc = "done" /\ exit_code = 0) =>
        stdout = << JsonDump(validation_errors_per_check) >>

\* ---- C10 ----------------------------------------------------------------
Consistent(c) ==
    /\ Matched(c)
    /\ c.log_collection
    /\ Len(c.source_names_readme) = 1
    /\ Lower(c.source_names_readme[1]) = Lower(c.log_source_name)

\* C10: a matched record with the capability flag whose documented sources
\* are exactly the matched pipeline id (ignoring case) gets no finding and
\* no key in the report.
C10_ConsistentRecordIsSilent ==
    /\ (Validated /\ Consistent(all_checks[vidx])) => errors = << >>
    /\ pc = "done" =>
         \A i \in DOMAIN all_checks :
            Consistent(all_checks[i]) => all_checks[i].dir_name \notin ReportKeys

C10_Witness ==
    /\ pc = "done"
    /\ \E i \in DOMAIN all_checks :
         /\ Consistent(all_checks[i])
         /\ all_checks[i].source_names_readme[1] # all_checks[i].log_source_name

====
